---- MODULE Spec2Model ----
(***************************************************************************)
(* Model of internal/core/application/types.go of tdex-daemon: the         *)
(* transaction manager (ExtractUnspents, ExtractBlindingData), the trade   *)
(* manager (FillProposal) and the trade read model (TradeInfo).            *)
(***************************************************************************)
EXTENDS Integers, Sequences, FiniteSets, TLC

VARIABLES
    txHex,          \* ExtractUnspents argument txHex
    infoByScript,   \* ExtractUnspents argument infoByScript
    pc,             \* position of the caller of ExtractUnspents
    ret,            \* what the last ExtractUnspents call returned
    firstRet,       \* what the first ExtractUnspents call returned
    psetBase64,     \* ExtractBlindingData argument psetBase64
    inBlindingKeys, \* ExtractBlindingData argument inBlindingKeys
    outBlindingKeys, \* ExtractBlindingData argument outBlindingKeys
    walletErrMaps,  \* the maps wallet.ExtractBlindingDataFromTx returns beside an error
    bdPc,           \* position of the caller of ExtractBlindingData
    bdRet,          \* what ExtractBlindingData returned
    fillOpts,       \* per caller, the FillProposalOpts of its FillProposal call
    fillRet,        \* per caller, what FillProposal returned
    trade,          \* a trade as TradeInfo reports it
    now             \* the unix clock the trade's transitions read

extractVars == <<txHex, infoByScript, pc, ret, firstRet>>
blindVars == <<psetBase64, inBlindingKeys, outBlindingKeys, walletErrMaps, bdPc, bdRet>>
fillVars == <<fillOpts, fillRet>>
tradeVars == <<trade, now>>
vars == <<extractVars, blindVars, fillVars, tradeVars>>

\* ------------------------------------------------------------------ bounds
MaxInputs == 2
MaxOutputs == 2
MaxPool == 2
MaxTime == 4

\* ------------------------------------------------------------ byte helpers
HexDigits == <<"0", "1", "2", "3", "4", "5", "6", "7",
               "8", "9", "a", "b", "c", "d", "e", "f">>

\* encoding/hex.EncodeToString: two lower-case digits per byte.
RECURSIVE EncodeToString(_)
EncodeToString(b) ==
    IF b = <<>> THEN <<>>
    ELSE <<HexDigits[(b[1] \div 16) + 1], HexDigits[(b[1] % 16) + 1]>>
         \o EncodeToString(Tail(b))

RECURSIVE ReverseBytes(_)
ReverseBytes(b) ==
    IF b = <<>> THEN <<>> ELSE ReverseBytes(Tail(b)) \o <<b[1]>>

\* bufferutil.TxIDFromBytes: the hash bytes reversed, then hex-encoded.
TxIDFromBytes(buffer) == EncodeToString(ReverseBytes(buffer))

\* bufferutil.CommitmentFromBytes: the commitment hex-encoded.
CommitmentFromBytes(buffer) == EncodeToString(buffer)

\* Go slices returned by the handlers: nil is not the empty slice.
NilSlice == [isNil |-> TRUE, elems |-> <<>>]
Slice(s) == [isNil |-> FALSE, elems |-> s]

\* ------------------------------------------------------------- public keys
NilPubKey == [isNil |-> TRUE, x |-> 0, odd |-> FALSE]

\* btcec.ParsePubKey on a compressed key: a format byte 0x02/0x03 followed by
\* the x coordinate (one byte here); anything else is an error and a nil key.
ParsePubKey(pubKeyStr) ==
    IF Len(pubKeyStr) = 2 /\ pubKeyStr[1] \in {2, 3}
    THEN [isNil |-> FALSE, x |-> pubKeyStr[2], odd |-> (pubKeyStr[1] = 3)]
    ELSE NilPubKey

SerializeCompressed(pubkey) == <<IF pubkey.odd THEN 3 ELSE 2, pubkey.x>>

\* hash160 of the serialized key, one byte wide here.
Hash160(b) == <<(b[1] * 7 + b[2] * 3) % 256>>

\* payment.FromPublicKey(pubkey, network, nil).WitnessScript: OP_0 <hash160>.
\* The network does not enter the witness script.
WitnessScriptOf(pubkey, network) ==
    LET pkHash == Hash160(SerializeCompressed(pubkey))
    IN  <<0, Len(pkHash)>> \o pkHash

Network == "regtest"

\* Witness stack elements used by the inputs of the model.
Sig == <<48>>
PubKey1 == <<2, 17>>
PubKey2 == <<3, 34>>
Junk == <<9, 9>>

Script1 == WitnessScriptOf(ParsePubKey(PubKey1), Network)
Script2 == WitnessScriptOf(ParsePubKey(PubKey2), Network)
Script3 == <<118, 169>>
Scripts == {Script1, Script2, Script3}

\* ------------------------------------------------ confidential outputs
BlindKey1 == <<1>>
BlindKey2 == <<2>>
BlindKey3 == <<3>>
BlindKeys == {BlindKey1, BlindKey2, BlindKey3}

Values == {5}
Assets == {6}
Blinders == {1}

ValueCommitmentOf(v, vbf) == <<9, (v * 16 + vbf) % 256>>
AssetCommitmentOf(a, abf) == <<10, (a * 16 + abf) % 256>>
NonceOf(key) == <<2>> \o key

Openings == [Value : Values, AssetHash : Assets,
             ValueBlinder : Blinders, AssetBlinder : Blinders]

Opens(o, txout) ==
    /\ ValueCommitmentOf(o.Value, o.ValueBlinder) = txout.Value
    /\ AssetCommitmentOf(o.AssetHash, o.AssetBlinder) = txout.Asset

\* transactionutil.UnblindOutput: the opening of the output's commitments
\* when the key is the one the output was blinded for, ok = FALSE otherwise.
UnblindOutput(txout, key) ==
    IF txout.Nonce = NonceOf(key) /\ \E o \in Openings : Opens(o, txout)
    THEN [ok |-> TRUE, res |-> CHOOSE o \in Openings : Opens(o, txout)]
    ELSE [ok |-> FALSE,
          res |-> [Value |-> 0, AssetHash |-> 0,
                   ValueBlinder |-> 0, AssetBlinder |-> 0]]

\* The blinding key of the owner of a script.
KeyOfScript(s) ==
    IF s = Script1 THEN BlindKey1 ELSE IF s = Script2 THEN BlindKey2 ELSE BlindKey3

\* A confidential output paying v of asset a to script s.
TxOutputTo(s, v, a) ==
    [Script |-> s, Nonce |-> NonceOf(KeyOfScript(s)),
     Value |-> ValueCommitmentOf(v, 1), Asset |-> AssetCommitmentOf(a, 1)]

\* ---------------------------------------------------------- transactions
PrevHash == <<171, 205>>

TxInputs ==
    { [Hash |-> PrevHash, Index |-> 0, Witness |-> <<>>],
      [Hash |-> PrevHash, Index |-> 0, Witness |-> <<Sig>>],
      [Hash |-> PrevHash, Index |-> 0, Witness |-> <<Sig, PubKey1>>],
      [Hash |-> PrevHash, Index |-> 1, Witness |-> <<Sig, PubKey1>>],
      [Hash |-> PrevHash, Index |-> 1, Witness |-> <<Sig, PubKey2>>],
      [Hash |-> PrevHash, Index |-> 0, Witness |-> <<Sig, Junk>>] }

TxOutputs == { TxOutputTo(s, 5, 6) : s \in Scripts }

SeqsUpTo(S, n) == UNION { [1..k -> S] : k \in 0..n }

Transactions ==
    [Inputs : SeqsUpTo(TxInputs, MaxInputs), Outputs : SeqsUpTo(TxOutputs, MaxOutputs)]

\* The serialized transaction: the bytes it decodes to, and whether the
\* decoder accepts them.
TxHexes == [wellFormed : BOOLEAN, tx : Transactions]

\* transaction.NewTxFromHex
NewTxFromHex(hexstr) ==
    IF hexstr.wellFormed THEN [err |-> "nil", tx |-> hexstr.tx]
    ELSE [err |-> "parse", tx |-> [Inputs |-> <<>>, Outputs |-> <<>>]]

\* tx.TxHash().String(): the hash of the witness-stripped serialization,
\* modelled collision-free as the witness-stripped content.
TxHash(tx) ==
    [ins |-> [i \in 1..Len(tx.Inputs) |->
                 <<tx.Inputs[i].Hash, tx.Inputs[i].Index>>],
     outs |-> tx.Outputs]

\* ------------------------------------------------------------ address info
Address1 == "addr1"
Address2 == "addr2"

InfoChoices(s, addr) ==
    { [Address |-> addr, BlindingKey |-> k, Script |-> s] :
        k \in {KeyOfScript(s), BlindKey3} }

HexScript1 == EncodeToString(Script1)
HexScript2 == EncodeToString(Script2)

InfoMaps ==
    {<<>>}
    \cup { (HexScript1 :> a) : a \in InfoChoices(Script1, Address1) }
    \cup { (HexScript2 :> b) : b \in InfoChoices(Script2, Address2) }
    \cup { (HexScript1 :> a) @@ (HexScript2 :> b) :
             a \in InfoChoices(Script1, Address1), b \in InfoChoices(Script2, Address2) }

\* --------------------------------------------------------- ExtractUnspents
\* What a call of ExtractUnspents does: it returns (kind "return") or the
\* goroutine panics (kind "panic": an index out of range or a nil dereference).
Return(unspents, spentKeys, err) ==
    [kind |-> "return", unspents |-> unspents, spentKeys |-> spentKeys, err |-> err]
Panic ==
    [kind |-> "panic", unspents |-> NilSlice, spentKeys |-> NilSlice, err |-> "nil"]
NoCall ==
    [kind |-> "none", unspents |-> NilSlice, spentKeys |-> NilSlice, err |-> "nil"]

\* unspentsToAdd := make([]domain.Unspent, 0)
NewUnspentList == <<>>

\* unspentsToSpend := make([]domain.UnspentKey, 0)
NewUnspentKeyList == <<>>

\* One iteration of the loop over tx.Inputs: the list after it and whether
\* the iteration panicked. in.Witness[1] is the second element of the stack;
\* payment.FromPublicKey dereferences the key ParsePubKey returned.
InputStep(in, info, network, keys) ==
    IF Len(in.Witness) > 0
    THEN IF Len(in.Witness) < 2
         THEN [panic |-> TRUE, keys |-> keys]
         ELSE LET pubkey == ParsePubKey(in.Witness[2])
              IN  IF pubkey.isNil
                  THEN [panic |-> TRUE, keys |-> keys]
                  ELSE LET script == EncodeToString(WitnessScriptOf(pubkey, network))
                       IN  IF script \in DOMAIN info
                           THEN [panic |-> FALSE,
                                 keys |-> Append(keys,
                                     [TxID |-> TxIDFromBytes(in.Hash), VOut |-> in.Index])]
                           ELSE [panic |-> FALSE, keys |-> keys]
    ELSE [panic |-> FALSE, keys |-> keys]

\* for _, in := range tx.Inputs, from input i on.
RECURSIVE InputLoop(_, _, _, _, _)
InputLoop(inputs, i, info, network, keys) ==
    IF i > Len(inputs) THEN [panic |-> FALSE, keys |-> keys]
    ELSE LET step == InputStep(inputs[i], info, network, keys)
         IN  IF step.panic THEN step
             ELSE InputLoop(inputs, i + 1, info, network, step.keys)

\* The record with the confirmation flag set at creation.
NewUnspentConfirmed(tx, i, out, info, unconfidential) ==
    [TxID |-> TxHash(tx),
     VOut |-> i,
     Value |-> unconfidential.Value,
     AssetHash |-> unconfidential.AssetHash,
     ValueCommitment |-> CommitmentFromBytes(out.Value),
     AssetCommitment |-> CommitmentFromBytes(out.Asset),
     ValueBlinder |-> unconfidential.ValueBlinder,
     AssetBlinder |-> unconfidential.AssetBlinder,
     ScriptPubKey |-> out.Script,
     Nonce |-> out.Nonce,
     RangeProof |-> <<0>>,
     SurjectionProof |-> <<0>>,
     Address |-> info.Address,
     Confirmed |-> TRUE]

\* The domain.Unspent built for output i (0-based) of tx.
NewUnspent(tx, i, out, info, unconfidential) ==
    [TxID |-> TxHash(tx),
     VOut |-> i,
     Value |-> unconfidential.Value,
     AssetHash |-> unconfidential.AssetHash,
     ValueCommitment |-> CommitmentFromBytes(out.Value),
     AssetCommitment |-> CommitmentFromBytes(out.Asset),
     ValueBlinder |-> unconfidential.ValueBlinder,
     AssetBlinder |-> unconfidential.AssetBlinder,
     ScriptPubKey |-> out.Script,
     Nonce |-> out.Nonce,
     RangeProof |-> <<0>>,
     SurjectionProof |-> <<0>>,
     Address |-> info.Address,
     Confirmed |-> FALSE]

\* for i, out := range tx.Outputs, from output i (1-based here) on.
RECURSIVE OutputLoop(_, _, _, _)
OutputLoop(tx, i, info, unspents) ==
    IF i > Len(tx.Outputs) THEN [ok |-> TRUE, unspents |-> unspents]
    ELSE LET out == tx.Outputs[i]
             script == EncodeToString(out.Script)
         IN  IF script \in DOMAIN info
             THEN LET u == UnblindOutput(out, info[script].BlindingKey)
                  IN  IF ~u.ok THEN [ok |-> FALSE, unspents |-> unspents]
                      ELSE OutputLoop(tx, i + 1, info,
                               Append(unspents,
                                      NewUnspent(tx, i - 1, out, info[script], u.res)))
             ELSE OutputLoop(tx, i + 1, info, unspents)

\* ExtractUnspents with the parse error dropped instead of returned.
ExtractUnspentsNoParseCheck(hexstr, info, network) ==
    LET tx == hexstr.tx
        ins == InputLoop(tx.Inputs, 1, info, network, NewUnspentKeyList)
    IN  IF ins.panic THEN Panic
        ELSE LET outs == OutputLoop(tx, 1, info, NewUnspentList)
             IN  IF ~outs.ok
                 THEN Return(NilSlice, NilSlice, "unable to unblind output")
                 ELSE Return(Slice(outs.unspents), Slice(ins.keys), "nil")

\* transactionManager.ExtractUnspents
ExtractUnspents(hexstr, info, network) ==
    LET parsed == NewTxFromHex(hexstr)
    IN  IF parsed.err # "nil" THEN Return(NilSlice, NilSlice, parsed.err)
        ELSE LET tx == parsed.tx
                 ins == InputLoop(tx.Inputs, 1, info, network, NewUnspentKeyList)
             IN  IF ins.panic THEN Panic
                 ELSE LET outs == OutputLoop(tx, 1, info, NewUnspentList)
                      IN  IF ~outs.ok
                          THEN Return(NilSlice, NilSlice, "unable to unblind output")
                          ELSE Return(Slice(outs.unspents), Slice(ins.keys), "nil")

\* ----------------------------------------------------- ExtractBlindingData
\* Go maps returned or taken by the handlers: nil is not the empty map.
NilMap == [isNil |-> TRUE, m |-> <<>>]
Map(f) == [isNil |-> FALSE, m |-> f]

\* Inputs of a partial transaction: the outpoint spent and the output it
\* spends (the witness utxo).
PsetInputs ==
    { [Hash |-> PrevHash, Index |-> 0, WitnessUtxo |-> TxOutputTo(Script1, 5, 6)],
      [Hash |-> PrevHash, Index |-> 1, WitnessUtxo |-> TxOutputTo(Script2, 5, 6)],
      [Hash |-> PrevHash, Index |-> 2, WitnessUtxo |-> TxOutputTo(Script3, 5, 6)] }

Psets ==
    [wellFormed : BOOLEAN,
     tx : [Inputs : SeqsUpTo(PsetInputs, MaxInputs),
           Outputs : SeqsUpTo(TxOutputs, MaxOutputs)]]

\* The identifier a blinding key is supplied under: the outpoint of an input,
\* the script of an output.
InputIdentifier(in) == <<TxIDFromBytes(in.Hash), in.Index>>
OutputIdentifier(out) == EncodeToString(out.Script)

Outpoint0 == <<TxIDFromBytes(PrevHash), 0>>
Outpoint1 == <<TxIDFromBytes(PrevHash), 1>>

InKeyMaps ==
    { NilMap, Map(<<>>),
      Map(Outpoint0 :> BlindKey1), Map(Outpoint0 :> BlindKey3),
      Map(Outpoint1 :> BlindKey2),
      Map((Outpoint0 :> BlindKey1) @@ (Outpoint1 :> BlindKey2)) }

OutKeyMaps ==
    { NilMap, Map(<<>>),
      Map(HexScript1 :> BlindKey1), Map(HexScript1 :> BlindKey3),
      Map(HexScript2 :> BlindKey2),
      Map((HexScript1 :> BlindKey1) @@ (HexScript2 :> BlindKey2)) }

\* wallet.BlindingData of an unblinded output.
WalletBlindingData(res) ==
    [Asset |-> res.AssetHash, Amount |-> res.Value,
     AssetBlinder |-> res.AssetBlinder, AmountBlinder |-> res.ValueBlinder]

\* The positions (1-based) of ids whose identifier has a key in keys.
Keyed(ids, keys) == { i \in 1..Len(ids) : ids[i] \in DOMAIN keys.m }

\* One side of wallet.ExtractBlindingDataFromTx: txouts[i] is the output to
\* unblind at index i, ids[i] its identifier. Indices with no supplied key are
\* skipped; a supplied key that does not unblind fails the extraction.
ExtractSide(txouts, ids, keys) ==
    IF keys.isNil THEN [ok |-> TRUE, data |-> NilMap]
    ELSE LET idx == Keyed(ids, keys)
         IN  IF \E i \in idx : ~UnblindOutput(txouts[i], keys.m[ids[i]]).ok
             THEN [ok |-> FALSE, data |-> NilMap]
             ELSE [ok |-> TRUE,
                   data |-> Map([j \in { i - 1 : i \in idx } |->
                       WalletBlindingData(
                           UnblindOutput(txouts[j + 1], keys.m[ids[j + 1]]).res)])]

\* wallet.ExtractBlindingDataFromTx
ExtractBlindingDataFromTx(pset, inKeys, outKeys) ==
    IF ~pset.wellFormed
    THEN [in |-> walletErrMaps, out |-> walletErrMaps, err |-> "parse"]
    ELSE LET ins == pset.tx.Inputs
             outs == pset.tx.Outputs
             inSide == ExtractSide([i \in 1..Len(ins) |-> ins[i].WitnessUtxo],
                                   [i \in 1..Len(ins) |-> InputIdentifier(ins[i])],
                                   inKeys)
             outSide == ExtractSide(outs,
                                    [i \in 1..Len(outs) |-> OutputIdentifier(outs[i])],
                                    outKeys)
         IN  IF ~inSide.ok \/ ~outSide.ok
             THEN [in |-> walletErrMaps, out |-> walletErrMaps, err |-> "unblind"]
             ELSE [in |-> inSide.data, out |-> outSide.data, err |-> "nil"]

\* BlindingData(d): the conversion of wallet.BlindingData to the
\* application's type of the same fields.
BlindingData(d) ==
    [Asset |-> d.Asset, Amount |-> d.Amount,
     AssetBlinder |-> d.AssetBlinder, AmountBlinder |-> d.AmountBlinder]

\* if in != nil { make; for i, d := range in { ...[i] = BlindingData(d) } }
ConvertBlindingData(from) ==
    IF ~from.isNil
    THEN Map([i \in DOMAIN from.m |-> BlindingData(from.m[i])])
    ELSE NilMap

\* ExtractBlindingData without the early return on error.
ExtractBlindingDataNoEarlyReturn(pset, inKeys, outKeys) ==
    LET r == ExtractBlindingDataFromTx(pset, inKeys, outKeys)
    IN  [inBlindingData |-> ConvertBlindingData(r.in),
         outBlindingData |-> ConvertBlindingData(r.out),
         err |-> r.err]

\* ExtractBlindingData with the second loop ranging over in instead of out.
ExtractBlindingDataWrongSide(pset, inKeys, outKeys) ==
    LET r == ExtractBlindingDataFromTx(pset, inKeys, outKeys)
    IN  IF r.err # "nil"
        THEN [inBlindingData |-> NilMap, outBlindingData |-> NilMap, err |-> r.err]
        ELSE [inBlindingData |-> ConvertBlindingData(r.in),
              outBlindingData |-> ConvertBlindingData(r.in),
              err |-> "nil"]

\* transactionManager.ExtractBlindingData
ExtractBlindingData(pset, inKeys, outKeys) ==
    LET r == ExtractBlindingDataFromTx(pset, inKeys, outKeys)
    IN  IF r.err # "nil"
        THEN [inBlindingData |-> NilMap, outBlindingData |-> NilMap, err |-> r.err]
        ELSE [inBlindingData |-> ConvertBlindingData(r.in),
              outBlindingData |-> ConvertBlindingData(r.out),
              err |-> "nil"]

NoBlindingCall == [inBlindingData |-> NilMap, outBlindingData |-> NilMap, err |-> "none"]

\* No ExtractBlindingData call is under way.
BlindIdle ==
    /\ psetBase64 = [wellFormed |-> FALSE, tx |-> [Inputs |-> <<>>, Outputs |-> <<>>]]
    /\ inBlindingKeys = NilMap
    /\ outBlindingKeys = NilMap
    /\ walletErrMaps = NilMap
    /\ bdPc = "idle"
    /\ bdRet = NoBlindingCall

\* No ExtractUnspents call is under way.
ExtractIdle ==
    /\ txHex = [wellFormed |-> FALSE, tx |-> [Inputs |-> <<>>, Outputs |-> <<>>]]
    /\ infoByScript = <<>>
    /\ pc = "idle"
    /\ ret = NoCall
    /\ firstRet = NoCall

\* ------------------------------------------------------------ FillProposal
Callers == {1, 2}

MarketAsset == "asset_r"
ProposerAsset == "asset_p"
FeeAsset == "asset_fee"

\* The owned outputs of the ledger the pools are drawn from (explorer.Utxo,
\* unblinded).
MarketLedger ==
    { [Hash |-> PrevHash, Index |-> 0, Value |-> 3, Asset |-> MarketAsset,
       Script |-> Script1],
      [Hash |-> PrevHash, Index |-> 1, Value |-> 5, Asset |-> MarketAsset,
       Script |-> Script1],
      [Hash |-> PrevHash, Index |-> 2, Value |-> 5, Asset |-> MarketAsset,
       Script |-> Script1] }

FeeLedger ==
    { [Hash |-> PrevHash, Index |-> 3, Value |-> 1, Asset |-> FeeAsset,
       Script |-> Script2],
      [Hash |-> PrevHash, Index |-> 4, Value |-> 2, Asset |-> FeeAsset,
       Script |-> Script2] }

\* domain.AddressInfo of the owner of a script: address, blinding key, script.
AddressInfoOf(s, addr) ==
    [Address |-> addr, BlindingKey |-> KeyOfScript(s), Script |-> s]

ZeroAddressInfo == [Address |-> "", BlindingKey |-> <<>>, Script |-> <<>>]

\* The pools of at most n outputs of a ledger, none twice.
Pools(ledger, n) ==
    { p \in SeqsUpTo(ledger, n) : \A i, j \in 1..Len(p) : p[i] = p[j] => i = j }

SwapRequests ==
    [AssetP : {ProposerAsset}, AmountP : {4},
     AssetR : {MarketAsset}, AmountR : {3, 6}]

\* The FillProposalOpts a caller hands in: the ten fields of the struct.
AllFillOpts ==
    [Mnemonic : {<<"word1", "word2">>},
     SwapRequest : SwapRequests,
     MarketUtxos : Pools(MarketLedger, MaxPool),
     FeeUtxos : Pools(FeeLedger, MaxPool),
     MarketInfo : {<<AddressInfoOf(Script1, Address1)>>},
     FeeInfo : {<<AddressInfoOf(Script2, Address2)>>},
     OutputInfo : {AddressInfoOf(Script1, Address1)},
     ChangeInfo : {AddressInfoOf(Script1, Address1)},
     FeeChangeInfo : {AddressInfoOf(Script2, Address2)},
     Network : {Network}]

\* The network fee of the proposal: a fixed amount, whatever the options.
NetworkFee(opts) == 1

\* The blinding key the addresses info holds for a script (empty when none).
BlindingKeyIn(infos, script) ==
    IF \E i \in 1..Len(infos) : infos[i].Script = script
    THEN infos[CHOOSE i \in 1..Len(infos) : infos[i].Script = script].BlindingKey
    ELSE <<>>

Range(f) == { f[i] : i \in DOMAIN f }

RECURSIVE SumValues(_, _)
SumValues(pool, idx) ==
    IF idx = {} THEN 0
    ELSE LET i == CHOOSE j \in idx : TRUE
         IN  pool[i].Value + SumValues(pool, idx \ {i})

MinOf(S) == CHOOSE x \in S : \A y \in S : x <= y

\* c comes before d in the insertion order of the pool.
EarlierThan(c, d) == c # d /\ MinOf((c \ d) \cup (d \ c)) \in c

\* c is at least as good a selection as d: less leftover, then fewer inputs,
\* then earlier in the pool.
AtLeastAsGood(pool, c, d) ==
    LET sc == SumValues(pool, c)
        sd == SumValues(pool, d)
    IN  \/ sc < sd
        \/ sc = sd /\ Cardinality(c) < Cardinality(d)
        \/ sc = sd /\ Cardinality(c) = Cardinality(d) /\ (c = d \/ EarlierThan(c, d))

\* The positions of pool, ascending, as a sequence of its elements.
RECURSIVE Pick(_, _, _)
Pick(pool, idx, i) ==
    IF i > Len(pool) THEN <<>>
    ELSE (IF i \in idx THEN <<pool[i]>> ELSE <<>>) \o Pick(pool, idx, i + 1)

\* Coin selection: the covering subset of the pool with the least leftover.
CoinSelect(pool, target) ==
    LET covering == { c \in SUBSET (1..Len(pool)) : SumValues(pool, c) >= target }
    IN  IF covering = {} THEN [ok |-> FALSE, selected |-> <<>>, change |-> 0]
        ELSE LET best == CHOOSE c \in covering :
                             \A d \in covering : AtLeastAsGood(pool, c, d)
             IN  [ok |-> TRUE, selected |-> Pick(pool, best, 1),
                  change |-> SumValues(pool, best) - target]

NoFillResult ==
    [PsetBase64 |-> [Inputs |-> <<>>, Outputs |-> <<>>],
     SelectedUnspents |-> <<>>,
     InputBlindingKeys |-> <<>>,
     OutputBlindingKeys |-> <<>>]

ChangeOutput(info, asset, amount) ==
    IF amount > 0
    THEN <<[Script |-> info.Script, Asset |-> asset, Value |-> amount]>>
    ELSE <<>>

\* fillProposal: selects the market and fee inputs from the pools it is
\* given, builds the outputs and returns the partial transaction with the
\* selected unspents. It reads nothing but opts and keeps nothing.
fillProposal(opts) ==
    LET market == CoinSelect(opts.MarketUtxos, opts.SwapRequest.AmountR)
        fee == CoinSelect(opts.FeeUtxos, NetworkFee(opts))
    IN  IF ~market.ok
        THEN [isNil |-> TRUE, res |-> NoFillResult, err |-> "insufficient funds"]
        ELSE IF ~fee.ok
        THEN [isNil |-> TRUE, res |-> NoFillResult, err |-> "insufficient fee funds"]
        ELSE LET selected == market.selected \o fee.selected
                 outputs ==
                     <<[Script |-> opts.OutputInfo.Script,
                        Asset |-> opts.SwapRequest.AssetP,
                        Value |-> opts.SwapRequest.AmountP]>>
                     \o ChangeOutput(opts.ChangeInfo, opts.SwapRequest.AssetR,
                                     market.change)
                     \o ChangeOutput(opts.FeeChangeInfo, FeeAsset, fee.change)
                     \o <<[Script |-> <<>>, Asset |-> FeeAsset,
                           Value |-> NetworkFee(opts)]>>
             IN  [isNil |-> FALSE,
                  res |-> [PsetBase64 |->
                               [Inputs |-> [i \in 1..Len(selected) |->
                                    <<selected[i].Hash, selected[i].Index>>],
                                Outputs |-> outputs],
                           SelectedUnspents |-> selected,
                           InputBlindingKeys |->
                               [o \in { <<selected[i].Hash, selected[i].Index>> :
                                          i \in 1..Len(selected) } |->
                                    LET u == CHOOSE x \in Range(selected) :
                                                 <<x.Hash, x.Index>> = o
                                    IN  BlindingKeyIn(opts.MarketInfo \o opts.FeeInfo,
                                                      u.Script)],
                           OutputBlindingKeys |->
                               (EncodeToString(opts.OutputInfo.Script)
                                    :> opts.OutputInfo.BlindingKey)
                               @@ (EncodeToString(opts.ChangeInfo.Script)
                                    :> opts.ChangeInfo.BlindingKey)],
                  err |-> "nil"]

\* tradeManager.FillProposal: tradeManager is an empty struct; the call is
\* fillProposal(opts).
FillProposal(opts) == fillProposal(opts)

NoFillOpts ==
    [Mnemonic |-> <<>>,
     SwapRequest |-> [AssetP |-> "", AmountP |-> 0, AssetR |-> "", AmountR |-> 0],
     MarketUtxos |-> <<>>,
     FeeUtxos |-> <<>>,
     MarketInfo |-> <<>>,
     FeeInfo |-> <<>>,
     OutputInfo |-> ZeroAddressInfo,
     ChangeInfo |-> ZeroAddressInfo,
     FeeChangeInfo |-> ZeroAddressInfo,
     Network |-> ""]

NoFillCall == [isNil |-> TRUE, res |-> NoFillResult, err |-> "none"]

\* No FillProposal call has been made.
FillIdle ==
    /\ fillOpts = [c \in Callers |-> NoFillOpts]
    /\ fillRet = [c \in Callers |-> NoFillCall]

\* ------------------------------------------------------------- trade status
\* The trade lifecycle: Requested -> Accepted -> Completed -> Settled, Expired
\* from Requested or Accepted, Failed from any state that is not terminal.
Terminal == {"Settled", "Expired", "Failed"}

NewTrade(t) ==
    [Status |-> "Requested",
     SwapFailInfo |-> [Code |-> 0, Message |-> ""],
     TxURL |-> "",
     RequestTimeUnix |-> t,
     AcceptTimeUnix |-> 0,
     CompleteTimeUnix |-> 0,
     SettleTimeUnix |-> 0,
     ExpiryTimeUnix |-> 0]

\* No trade is being followed.
TradeIdle ==
    /\ trade = [NewTrade(0) EXCEPT !.Status = "Undefined"]
    /\ now = 0

\* -------------------------------------------------- specification: extract
InitExtract ==
    /\ txHex \in TxHexes
    /\ infoByScript \in InfoMaps
    /\ pc = "first"
    /\ ret = NoCall
    /\ firstRet = NoCall
    /\ BlindIdle
    /\ FillIdle
    /\ TradeIdle

\* A caller hands a transaction to ExtractUnspents.
ExtractCall ==
    /\ pc = "first"
    /\ ret' = ExtractUnspents(txHex, infoByScript, Network)
    /\ firstRet' = ret'
    /\ pc' = "replay"
    /\ UNCHANGED <<txHex, infoByScript, blindVars, fillVars, tradeVars>>

\* The same transaction and map are handed to ExtractUnspents again.
ExtractReplay ==
    /\ pc = "replay"
    /\ ret' = ExtractUnspents(txHex, infoByScript, Network)
    /\ pc' = "done"
    /\ UNCHANGED <<txHex, infoByScript, firstRet, blindVars, fillVars, tradeVars>>

NextExtract == ExtractCall \/ ExtractReplay

SpecExtract == InitExtract /\ [][NextExtract]_vars

\* ------------------------------------------------- properties: extract
Called == pc # "first"
Succeeded == ret.kind = "return" /\ ret.err = "nil"

\* The output's script is a key of the owned-script map.
IsOwnedOutput(out) == EncodeToString(out.Script) \in DOMAIN infoByScript

OwnedOutputIdx ==
    { i \in 1..Len(txHex.tx.Outputs) : IsOwnedOutput(txHex.tx.Outputs[i]) }

\* The owned output cannot be unblinded with the key the map holds for it.
FailsToUnblind(out) ==
    ~UnblindOutput(out, infoByScript[EncodeToString(out.Script)].BlindingKey).ok

SomeOwnedOutputFails ==
    \E i \in OwnedOutputIdx : FailsToUnblind(txHex.tx.Outputs[i])

\* The native segregated-witness spend pattern: <signature> <public key>.
MatchesSpendPattern(in) ==
    Len(in.Witness) >= 2 /\ ~ParsePubKey(in.Witness[2]).isNil

IsOwnedInput(in) ==
    /\ MatchesSpendPattern(in)
    /\ EncodeToString(WitnessScriptOf(ParsePubKey(in.Witness[2]), Network))
          \in DOMAIN infoByScript

OutpointOf(in) == [TxID |-> TxIDFromBytes(in.Hash), VOut |-> in.Index]

\* The outpoints of the owned inputs, in input order.
ExpectedSpentKeys ==
    LET owned == SelectSeq(txHex.tx.Inputs, IsOwnedInput)
    IN  [k \in 1..Len(owned) |-> OutpointOf(owned[k])]

\* The k-th owned output, counting from 1, as an index into tx.Outputs.
KthOwnedOutput(k) ==
    CHOOSE i \in OwnedOutputIdx : Cardinality({ j \in OwnedOutputIdx : j <= i }) = k

\* C1: for every transaction and owned-script map, if an output whose script
\* is in the map fails to unblind with that script's blinding key, the call
\* returns an error, no new unspents and no spent keys.
C1_FailFastOnUnblind ==
    (Called /\ txHex.wellFormed /\ SomeOwnedOutputFails)
        => /\ ret.kind = "return"
           /\ ret.err # "nil"
           /\ ret.unspents = NilSlice
           /\ ret.spentKeys = NilSlice

\* C2: a malformed transaction hex yields the parse error, no new unspents and
\* no spent keys, whatever inputs and outputs the bytes would decode to.
C2_ParseErrorFirst ==
    (Called /\ ~txHex.wellFormed) => ret = Return(NilSlice, NilSlice, "parse")

\* A malformed hex was handed in whose bytes hold an input with a one-element
\* witness and an owned output that cannot be unblinded.
C2_Witness ==
    /\ Called
    /\ ~txHex.wellFormed
    /\ \E i \in 1..Len(txHex.tx.Inputs) : Len(txHex.tx.Inputs[i].Witness) = 1
    /\ SomeOwnedOutputFails
    /\ ret = Return(NilSlice, NilSlice, "parse")

\* C3: inputs whose witness does not match the native segregated-witness
\* spend pattern are ignored: they add no spent key and the call neither
\* fails nor aborts because of them.
C3_UnmatchedInputsIgnored ==
    (Called /\ txHex.wellFormed /\ ~SomeOwnedOutputFails)
        => /\ Succeeded
           /\ ret.spentKeys = Slice(ExpectedSpentKeys)

\* C4: on success newUnspents holds one Unspent per owned output, in output
\* order, keyed by the transaction id and the output index, carrying the
\* address of the matched script, unconfirmed; nothing for other outputs.
C4_NewUnspentsPerOwnedOutput ==
    (Called /\ Succeeded)
        => LET us == ret.unspents.elems
               tx == txHex.tx
           IN  /\ ~ret.unspents.isNil
               /\ Len(us) = Cardinality(OwnedOutputIdx)
               /\ \A k \in 1..Len(us) :
                     LET i == KthOwnedOutput(k)
                         out == tx.Outputs[i]
                     IN  /\ us[k].TxID = TxHash(tx)
                         /\ us[k].VOut = i - 1
                         /\ us[k].ScriptPubKey = out.Script
                         /\ us[k].Address =
                               infoByScript[EncodeToString(out.Script)].Address
                         /\ us[k].Confirmed = FALSE

\* A call succeeded on a transaction whose first output is not owned and
\* whose second output is: one Unspent, for output index 1.
C4_Witness ==
    /\ Called
    /\ Succeeded
    /\ Len(txHex.tx.Outputs) = 2
    /\ ~IsOwnedOutput(txHex.tx.Outputs[1])
    /\ Len(ret.unspents.elems) = 1
    /\ ret.unspents.elems[1].VOut = 1

\* C10: on success spentKeys holds, in input order, the outpoints of the
\* inputs that carry a witness whose public key's pay-to-witness-public-key
\* script is owned; a transaction with no owned input and no owned output
\* yields two empty lists and no error.
C10_SpentKeysOfOwnedInputs ==
    (Called /\ txHex.wellFormed)
        => /\ Succeeded => ret.spentKeys = Slice(ExpectedSpentKeys)
           /\ (ExpectedSpentKeys = <<>> /\ OwnedOutputIdx = {})
                 => ret = Return(Slice(<<>>), Slice(<<>>), "nil")

\* ---------------------------------------------- specification: blinding data
InitBlind ==
    /\ psetBase64 \in Psets
    /\ inBlindingKeys \in InKeyMaps
    /\ outBlindingKeys \in OutKeyMaps
    /\ walletErrMaps \in {NilMap, Map(<<>>)}
    /\ bdPc = "call"
    /\ bdRet = NoBlindingCall
    /\ ExtractIdle
    /\ FillIdle
    /\ TradeIdle

\* A caller hands a partial transaction and key maps to ExtractBlindingData.
ExtractBlindingDataCall ==
    /\ bdPc = "call"
    /\ bdRet' = ExtractBlindingData(psetBase64, inBlindingKeys, outBlindingKeys)
    /\ bdPc' = "done"
    /\ UNCHANGED <<psetBase64, inBlindingKeys, outBlindingKeys, walletErrMaps>>
    /\ UNCHANGED <<extractVars, fillVars, tradeVars>>

NextBlind == ExtractBlindingDataCall

SpecBlind == InitBlind /\ [][NextBlind]_vars

\* ------------------------------------------- properties: blinding data
BdDone == bdPc = "done"

\* Every supplied key unblinds the input or output it is supplied for.
SuppliedKeysUnblind ==
    LET ins == psetBase64.tx.Inputs
        outs == psetBase64.tx.Outputs
    IN  /\ \A i \in 1..Len(ins) :
              (~inBlindingKeys.isNil /\ InputIdentifier(ins[i]) \in DOMAIN inBlindingKeys.m)
                  => UnblindOutput(ins[i].WitnessUtxo,
                                   inBlindingKeys.m[InputIdentifier(ins[i])]).ok
        /\ \A i \in 1..Len(outs) :
              (~outBlindingKeys.isNil /\ OutputIdentifier(outs[i]) \in DOMAIN outBlindingKeys.m)
                  => UnblindOutput(outs[i], outBlindingKeys.m[OutputIdentifier(outs[i])]).ok

\* C7: an entry is returned only for the indices a blinding key was supplied
\* for; an index with no supplied key has no entry and causes no error; every
\* entry of the underlying extraction appears under its index with its data.
C7_EntriesOnlyForSuppliedKeys ==
    (BdDone /\ psetBase64.wellFormed /\ SuppliedKeysUnblind)
        => LET ins == psetBase64.tx.Inputs
               outs == psetBase64.tx.Outputs
               under == ExtractBlindingDataFromTx(psetBase64, inBlindingKeys,
                                                  outBlindingKeys)
           IN  /\ bdRet.err = "nil"
               /\ \A i \in DOMAIN bdRet.inBlindingData.m :
                     /\ i + 1 \in 1..Len(ins)
                     /\ InputIdentifier(ins[i + 1]) \in DOMAIN inBlindingKeys.m
               /\ \A i \in DOMAIN bdRet.outBlindingData.m :
                     /\ i + 1 \in 1..Len(outs)
                     /\ OutputIdentifier(outs[i + 1]) \in DOMAIN outBlindingKeys.m
               /\ bdRet.inBlindingData.isNil = under.in.isNil
               /\ bdRet.outBlindingData.isNil = under.out.isNil
               /\ DOMAIN bdRet.inBlindingData.m = DOMAIN under.in.m
               /\ DOMAIN bdRet.outBlindingData.m = DOMAIN under.out.m
               /\ \A i \in DOMAIN under.in.m :
                     bdRet.inBlindingData.m[i] = under.in.m[i]
               /\ \A i \in DOMAIN under.out.m :
                     bdRet.outBlindingData.m[i] = under.out.m[i]

\* A call returned an entry for output 1 and none for output 0, whose script
\* has no key, and an entry for an input.
C7_Witness ==
    /\ BdDone
    /\ bdRet.err = "nil"
    /\ Len(psetBase64.tx.Outputs) = 2
    /\ DOMAIN bdRet.outBlindingData.m = {1}
    /\ DOMAIN bdRet.inBlindingData.m # {}

\* C8: when the partial transaction cannot be parsed the error is returned
\* and both blinding-data maps are nil.
C8_ParseErrorNilMaps ==
    (BdDone /\ ~psetBase64.wellFormed)
        => /\ bdRet.err = "parse"
           /\ bdRet.inBlindingData = NilMap
           /\ bdRet.outBlindingData = NilMap

\* A call failed to parse a partial transaction whose bytes hold inputs and
\* outputs, with keys supplied for both sides.
C8_Witness ==
    /\ BdDone
    /\ ~psetBase64.wellFormed
    /\ Len(psetBase64.tx.Inputs) > 0
    /\ Len(psetBase64.tx.Outputs) > 0
    /\ ~inBlindingKeys.isNil /\ DOMAIN inBlindingKeys.m # {}
    /\ ~outBlindingKeys.isNil /\ DOMAIN outBlindingKeys.m # {}
    /\ bdRet.err = "parse"

\* ------------------------------------------------ specification: fill
InitFill ==
    /\ FillIdle
    /\ ExtractIdle
    /\ BlindIdle
    /\ TradeIdle

\* Caller c hands pools drawn from the ledger to FillProposal. Nothing is
\* shared between the calls of two callers, so their order is immaterial and
\* each call is one step.
FillProposalCall(c) ==
    /\ fillRet[c].err = "none"
    /\ \E opts \in AllFillOpts :
          /\ fillOpts' = [fillOpts EXCEPT ![c] = opts]
          /\ fillRet' = [fillRet EXCEPT ![c] = FillProposal(opts)]
    /\ UNCHANGED <<extractVars, blindVars, tradeVars>>

NextFill == \E c \in Callers : FillProposalCall(c)

SpecFill == InitFill /\ [][NextFill]_vars

\* ---------------------------------------------------- properties: fill
PoolOf(c) == Range(fillOpts[c].MarketUtxos) \cup Range(fillOpts[c].FeeUtxos)

\* C6: two concurrent FillProposal calls whose MarketUtxos or FeeUtxos pools
\* overlap never both return the same UTXO in SelectedUnspents.
C6_NoDoubleSelection ==
    \A c, d \in Callers :
        (c # d /\ ~fillRet[c].isNil /\ ~fillRet[d].isNil
              /\ PoolOf(c) \cap PoolOf(d) # {})
            => Range(fillRet[c].res.SelectedUnspents)
                  \cap Range(fillRet[d].res.SelectedUnspents) = {}

\* ------------------------------------------------ specification: trade
InitTrade ==
    /\ now = 1
    /\ trade = NewTrade(now)
    /\ ExtractIdle
    /\ BlindIdle
    /\ FillIdle

Tick ==
    /\ now < MaxTime
    /\ now' = now + 1
    /\ UNCHANGED <<trade, extractVars, blindVars, fillVars>>

TradeAccept ==
    /\ trade.Status = "Requested"
    /\ trade' = [trade EXCEPT !.Status = "Accepted", !.AcceptTimeUnix = now]
    /\ UNCHANGED <<now, extractVars, blindVars, fillVars>>

TradeComplete ==
    /\ trade.Status = "Accepted"
    /\ trade' = [trade EXCEPT !.Status = "Completed", !.CompleteTimeUnix = now]
    /\ UNCHANGED <<now, extractVars, blindVars, fillVars>>

TradeSettle ==
    /\ trade.Status = "Completed"
    /\ trade' = [trade EXCEPT !.Status = "Settled", !.SettleTimeUnix = now,
                              !.TxURL = "tx"]
    /\ UNCHANGED <<now, extractVars, blindVars, fillVars>>

TradeExpire ==
    /\ trade.Status \in {"Requested", "Accepted"}
    /\ trade' = [trade EXCEPT !.Status = "Expired", !.ExpiryTimeUnix = now]
    /\ UNCHANGED <<now, extractVars, blindVars, fillVars>>

\* A failure recorded whatever the status, a terminal one included.
TradeFailFromAnyStatus ==
    /\ trade.Status # "Failed"
    /\ \E code \in {1, 2} :
          trade' = [trade EXCEPT !.Status = "Failed",
                                 !.SwapFailInfo = [Code |-> code, Message |-> "failed"]]
    /\ UNCHANGED <<now, extractVars, blindVars, fillVars>>

TradeFail ==
    /\ trade.Status \notin Terminal
    /\ \E code \in {1, 2} :
          trade' = [trade EXCEPT !.Status = "Failed",
                                 !.SwapFailInfo = [Code |-> code, Message |-> "failed"]]
    /\ UNCHANGED <<now, extractVars, blindVars, fillVars>>

NextTrade ==
    \/ Tick
    \/ TradeAccept
    \/ TradeComplete
    \/ TradeSettle
    \/ TradeExpire
    \/ TradeFail

SpecTrade == InitTrade /\ [][NextTrade]_vars

\* --------------------------------------------------- properties: trade
ForwardTransitions ==
    { <<"Requested", "Accepted">>, <<"Accepted", "Completed">>,
      <<"Completed", "Settled">>,
      <<"Requested", "Expired">>, <<"Accepted", "Expired">>,
      <<"Requested", "Failed">>, <<"Accepted", "Failed">>,
      <<"Completed", "Failed">> }

\* The recorded request, accept, complete and settle times, in that order.
RecordedTimes ==
    LET all == <<trade.RequestTimeUnix, trade.AcceptTimeUnix,
                 trade.CompleteTimeUnix, trade.SettleTimeUnix>>
    IN  SelectSeq(all, LAMBDA t : t # 0)

TimesNonDecreasing ==
    \A i, j \in 1..Len(RecordedTimes) : i <= j => RecordedTimes[i] <= RecordedTimes[j]

\* C9: the status only moves along Requested, Accepted, Completed, Settled, or
\* to Expired (from Requested or Accepted) or Failed (from a status that is
\* not terminal); a Settled, Expired or Failed trade never changes again; the
\* recorded request, accept, complete and settle times are non-decreasing.
C9_StatusNeverMovesBackward ==
    /\ [](TimesNonDecreasing)
    /\ [][/\ (trade'.Status = trade.Status
                \/ <<trade.Status, trade'.Status>> \in ForwardTransitions)
          /\ (trade.Status \in Terminal => trade' = trade)]_vars

\* A trade was settled after being accepted later than it was requested and
\* settled later than it was accepted.
C9_Witness ==
    /\ trade.Status = "Settled"
    /\ trade.AcceptTimeUnix > trade.RequestTimeUnix
    /\ trade.SettleTimeUnix > trade.AcceptTimeUnix

====
